---- MODULE Spec2Model ----
(***************************************************************************)
(* Ardu Bird (Flappy Bird for Arduino UNO with a 128x64 OLED).             *)
(*                                                                         *)
(* The sketch is modelled as a state machine whose single step is one call *)
(* of loop().  The globals of the sketch are the variables; every function *)
(* of the sketch that changes game state is an operator on a record of     *)
(* those globals, composed by loop_ exactly as loop() calls them.          *)
(* The drawing functions only read game state, except                      *)
(* renderHighscoreScreen, whose blink timer is modelled.                   *)
(*                                                                         *)
(* millis() is read several times inside one call of loop(); the game      *)
(* logic of one call runs in far less than a millisecond, so all reads of  *)
(* one call return the same value t.  int is 16 bit and unsigned long is   *)
(* 32 bit on the UNO; within the bounds below no value leaves these        *)
(* ranges, so the arithmetic is the arithmetic of the integers.            *)
(* velocity is a float that only ever holds small integers.                *)
(***************************************************************************)
EXTENDS Integers, Sequences, FiniteSets

\* ---------------------------------------------------------------- constants

SCREEN_WIDTH == 128
SCREEN_HEIGHT == 64
SCALE_FACTOR == 10
GRAVITY == 5
JUMP_STRENGTH == -25
PIPE_WIDTH == 15 * SCALE_FACTOR
PIPE_GAP == 30 * SCALE_FACTOR
PIPE_SPEED == 10
PIPE_SPACING == 65 * SCALE_FACTOR
MAX_PIPES == 3
FRAME_TIME == 40

\* constrain(v, -50, 50) in loop()
VELOCITY_MIN == -50
VELOCITY_MAX == 50
\* the timers of loop(), in milliseconds
HIGHSCORE_AFTER == 3000
RESTART_AFTER == 1000
STARTSCREEN_AFTER == 8000
BLINK_TIME == 100
\* the actor's fixed column (pixels) and the collision forgiveness (pixels)
BIRD_X_PX == 15
FORGIVENESS_PX == 2
\* number of entries of highscores[]
HIGHSCORE_SLOTS == 5

\* random(lo, hi) of generatePipeHeight: lo <= value < hi
PIPE_HEIGHT_LO == 10 * SCALE_FACTOR

\* PIPE_HEIGHT_HI without the 10 pixels left for the lower section.
PIPE_HEIGHT_HI_NoMargin == SCREEN_HEIGHT * SCALE_FACTOR - PIPE_GAP

PIPE_HEIGHT_HI == SCREEN_HEIGHT * SCALE_FACTOR - PIPE_GAP - 10 * SCALE_FACTOR

\* random(-20, 20) * SCALE_FACTOR
JITTER_LO == -20
JITTER_HI == 20

PipeSlots == 0 .. (MAX_PIPES - 1)
ScoreSlots == 0 .. (HIGHSCORE_SLOTS - 1)

\* ------------------------------------------------------------------- bounds

\* The clock of a behaviour stops at MaxTime milliseconds.
MaxTime == 20000
\* loop() is accepted (runs a frame) at most MaxFrames times in a behaviour of Spec.
MaxFrames == 26
\* A run is followed until its score reaches MaxScore.
MaxScore == 4
\* Scores submitted in SpecHighscore are 0, 1 and the multiples of 5 up to 5 * MaxScoreStep.
MaxScoreStep == 10
\* While every obstacle is farther right than ApproachX the player of SpecRun hovers.
ApproachX == 450
\* SpecRun follows a run until its score reaches MaxRunScore.
MaxRunScore == 2

\* SpecMarathon follows one run for MaxLongTime ms or up to the score MaxLongScore.
MaxLongTime == 70000
MaxLongScore == 190

\* ---------------------------------------------------------------- variables

VARIABLES
  now,               \* millis()
  lastFrameTime,
  frameCounter,
  gameState,
  gameOver,
  gameOverTime,
  highscoreTime,
  birdY,
  velocity,
  score,
  pipes,             \* pipes[i] = [x |-> , height |-> ]
  highscores,
  newHighscoreIndex,
  showBlink,
  lastBlinkTime,
  button,            \* the level digitalRead(BUTTON_PIN) gave in the last call of loop()
  frameRan,          \* whether the last call of loop() passed the frame-time gate
  saveCalls,         \* calls of saveHighscores made by the last call of loop()
  recycled           \* recycle events of the last call of loop(), in order

vars == << now, lastFrameTime, frameCounter, gameState, gameOver, gameOverTime,
           highscoreTime, birdY, velocity, score, pipes, highscores,
           newHighscoreIndex, showBlink, lastBlinkTime, button, frameRan,
           saveCalls, recycled >>

\* The globals as one record, the argument of the operators below.
Globals ==
  [ lastFrameTime |-> lastFrameTime, frameCounter |-> frameCounter,
    gameState |-> gameState, gameOver |-> gameOver, gameOverTime |-> gameOverTime,
    highscoreTime |-> highscoreTime, birdY |-> birdY, velocity |-> velocity,
    score |-> score, pipes |-> pipes, highscores |-> highscores,
    newHighscoreIndex |-> newHighscoreIndex, showBlink |-> showBlink,
    lastBlinkTime |-> lastBlinkTime, saveCalls |-> saveCalls, recycled |-> recycled ]

\* ------------------------------------------------------------ pure helpers

constrain(v, lo, hi) == IF v < lo THEN lo ELSE IF v > hi THEN hi ELSE v

\* ------------------------------------------------------------- highscores

\* The body of saveHighscores' for loop from index i on.
RECURSIVE saveHighscoresFrom(_, _, _)
saveHighscoresFrom(hs, newScore, i) ==
  IF i >= HIGHSCORE_SLOTS
  THEN [highscores |-> hs, newHighscoreIndex |-> -1]
  ELSE IF newScore > hs[i]
       THEN [highscores |->
               [j \in ScoreSlots |->
                  IF j > i THEN hs[j - 1] ELSE IF j = i THEN newScore ELSE hs[j]],
             newHighscoreIndex |-> i]
       ELSE saveHighscoresFrom(hs, newScore, i + 1)

\* saveHighscores with its scan starting at slot 1: for (int i = 1; ...).
saveHighscores_SkipTop(s, newScore) ==
  LET r == saveHighscoresFrom(s.highscores, newScore, 1)
  IN [s EXCEPT !.highscores = r.highscores,
               !.newHighscoreIndex = r.newHighscoreIndex,
               !.saveCalls = @ + 1]

\* saveHighscores with its shift starting one slot too high: for (int j = 3; ...).
saveHighscores_ShortShift(s, newScore) ==
  LET r == saveHighscoresFrom(s.highscores, newScore, 0)
  IN [s EXCEPT !.highscores = [r.highscores EXCEPT ![HIGHSCORE_SLOTS - 1] =
                                 s.highscores[HIGHSCORE_SLOTS - 1]],
               !.newHighscoreIndex = r.newHighscoreIndex,
               !.saveCalls = @ + 1]

\* saveHighscores without its first statement, newHighscoreIndex = -1.
saveHighscores_KeepIndex(s, newScore) ==
  LET r == saveHighscoresFrom(s.highscores, newScore, 0)
  IN [s EXCEPT !.highscores = r.highscores,
               !.newHighscoreIndex = IF r.newHighscoreIndex = -1 THEN @
                                     ELSE r.newHighscoreIndex,
               !.saveCalls = @ + 1]

\* saveHighscores comparing with >= instead of >.
RECURSIVE saveHighscoresFrom_Geq(_, _, _)
saveHighscoresFrom_Geq(hs, newScore, i) ==
  IF i >= HIGHSCORE_SLOTS
  THEN [highscores |-> hs, newHighscoreIndex |-> -1]
  ELSE IF newScore >= hs[i]
       THEN [highscores |->
               [j \in ScoreSlots |->
                  IF j > i THEN hs[j - 1] ELSE IF j = i THEN newScore ELSE hs[j]],
             newHighscoreIndex |-> i]
       ELSE saveHighscoresFrom_Geq(hs, newScore, i + 1)

saveHighscores_Geq(s, newScore) ==
  LET r == saveHighscoresFrom_Geq(s.highscores, newScore, 0)
  IN [s EXCEPT !.highscores = r.highscores,
               !.newHighscoreIndex = r.newHighscoreIndex,
               !.saveCalls = @ + 1]

saveHighscores(s, newScore) ==
  LET r == saveHighscoresFrom(s.highscores, newScore, 0)
  IN [s EXCEPT !.highscores = r.highscores,
               !.newHighscoreIndex = r.newHighscoreIndex,
               !.saveCalls = @ + 1]

\* ------------------------------------------------------------ obstacle field

\* resetGame without the factor i: every later slot one spacing behind slot 0.
resetGame_OneSpacing(s, h, j) ==
  [s EXCEPT !.birdY = (SCREEN_HEIGHT * SCALE_FACTOR) \div 5,
            !.velocity = 0,
            !.score = 0,
            !.gameOver = FALSE,
            !.pipes = [i \in PipeSlots |->
                         [x |-> IF i = 0
                                THEN SCREEN_WIDTH * SCALE_FACTOR
                                ELSE SCREEN_WIDTH * SCALE_FACTOR + PIPE_SPACING
                                     + j[i] * SCALE_FACTOR,
                          height |-> h[i]]]]

\* resetGame without score = 0.
resetGame_KeepScore(s, h, j) ==
  [s EXCEPT !.birdY = (SCREEN_HEIGHT * SCALE_FACTOR) \div 5,
            !.velocity = 0,
            !.gameOver = FALSE,
            !.pipes = [i \in PipeSlots |->
                         [x |-> IF i = 0
                                THEN SCREEN_WIDTH * SCALE_FACTOR
                                ELSE SCREEN_WIDTH * SCALE_FACTOR + i * PIPE_SPACING
                                     + j[i] * SCALE_FACTOR,
                          height |-> h[i]]]]

\* resetGame without velocity = 0.
resetGame_KeepVelocity(s, h, j) ==
  [s EXCEPT !.birdY = (SCREEN_HEIGHT * SCALE_FACTOR) \div 5,
            !.score = 0,
            !.gameOver = FALSE,
            !.pipes = [i \in PipeSlots |->
                         [x |-> IF i = 0
                                THEN SCREEN_WIDTH * SCALE_FACTOR
                                ELSE SCREEN_WIDTH * SCALE_FACTOR + i * PIPE_SPACING
                                     + j[i] * SCALE_FACTOR,
                          height |-> h[i]]]]

\* resetGame clearing the highscore list as well.
resetGame_ClearsList(s, h, j) ==
  [s EXCEPT !.birdY = (SCREEN_HEIGHT * SCALE_FACTOR) \div 5,
            !.velocity = 0,
            !.score = 0,
            !.gameOver = FALSE,
            !.highscores = [i \in ScoreSlots |-> 0],
            !.pipes = [i \in PipeSlots |->
                         [x |-> IF i = 0
                                THEN SCREEN_WIDTH * SCALE_FACTOR
                                ELSE SCREEN_WIDTH * SCALE_FACTOR + i * PIPE_SPACING
                                     + j[i] * SCALE_FACTOR,
                          height |-> h[i]]]]

\* resetGame(); h[i] is the i-th generatePipeHeight(), j[i] the random(-20, 20) of slot i.
resetGame(s, h, j) ==
  [s EXCEPT !.birdY = (SCREEN_HEIGHT * SCALE_FACTOR) \div 5,
            !.velocity = 0,
            !.score = 0,
            !.gameOver = FALSE,
            !.pipes = [i \in PipeSlots |->
                         [x |-> IF i = 0
                                THEN SCREEN_WIDTH * SCALE_FACTOR
                                ELSE SCREEN_WIDTH * SCALE_FACTOR + i * PIPE_SPACING
                                     + j[i] * SCALE_FACTOR,
                          height |-> h[i]]]]

RECURSIVE findFurthestFrom(_, _, _)
findFurthestFrom(ps, i, maxX) ==
  IF i >= MAX_PIPES THEN maxX
  ELSE findFurthestFrom(ps, i + 1, IF ps[i].x > maxX THEN ps[i].x ELSE maxX)

\* findFurthestPipe starting its loop at slot 1.
findFurthestPipe_SkipFirst(ps) == findFurthestFrom(ps, 1, 0)

findFurthestPipe(ps) == findFurthestFrom(ps, 0, 0)

\* leftScreen with <= for <.
leftScreen_Inclusive(x) == x <= -PIPE_WIDTH

\* Whether movePipes recycles the obstacle it has just moved to x.
leftScreen(x) == x < -PIPE_WIDTH

\* recycleX placing the obstacle at the right screen edge, as resetGame places slot 0.
recycleX_ScreenEdge(ps, jit) == SCREEN_WIDTH * SCALE_FACTOR + jit * SCALE_FACTOR

\* The new x of a recycled obstacle.
recycleX(ps, jit) == findFurthestPipe(ps) + PIPE_SPACING + jit * SCALE_FACTOR

\* The body of movePipes' for loop from slot i on.
RECURSIVE movePipesFrom(_, _, _, _, _)
movePipesFrom(s, i, currentSpeed, h, j) ==
  IF i >= MAX_PIPES THEN s
  ELSE LET moved == [s.pipes EXCEPT ![i].x = @ - currentSpeed]
       IN IF leftScreen(moved[i].x)
          THEN LET placed == [moved EXCEPT ![i].x = recycleX(moved, j[i]),
                                           ![i].height = h[i]]
               IN movePipesFrom(
                    [s EXCEPT !.pipes = placed,
                              !.score = @ + 1,
                              !.recycled = Append(@, [slot |-> i, before |-> moved,
                                                      after |-> placed])],
                    i + 1, currentSpeed, h, j)
          ELSE movePipesFrom([s EXCEPT !.pipes = moved], i + 1, currentSpeed, h, j)

movePipes(s, h, j) == movePipesFrom(s, 0, PIPE_SPEED + s.score, h, j)

\* ---------------------------------------------------------------- collision

\* overlapsBird with <= and >= for < and >.
overlapsBird_Inclusive(p) ==
  /\ p.x <= (BIRD_X_PX + FORGIVENESS_PX) * SCALE_FACTOR
  /\ p.x + PIPE_WIDTH >= (BIRD_X_PX - FORGIVENESS_PX) * SCALE_FACTOR

overlapsBird(p) ==
  /\ p.x < (BIRD_X_PX + FORGIVENESS_PX) * SCALE_FACTOR
  /\ p.x + PIPE_WIDTH > (BIRD_X_PX - FORGIVENESS_PX) * SCALE_FACTOR

\* outsideGap with <= and >= for < and >.
outsideGap_Inclusive(y, p) ==
  \/ (y - FORGIVENESS_PX * SCALE_FACTOR) <= p.height
  \/ (y + FORGIVENESS_PX * SCALE_FACTOR) >= p.height + PIPE_GAP

outsideGap(y, p) ==
  \/ (y - FORGIVENESS_PX * SCALE_FACTOR) < p.height
  \/ (y + FORGIVENESS_PX * SCALE_FACTOR) > p.height + PIPE_GAP

belowScreen(y) == y >= SCREEN_HEIGHT * SCALE_FACTOR

\* The three statements checkCollision runs on every hit.
endRun(s, t) ==
  saveHighscores([s EXCEPT !.gameOver = TRUE, !.gameOverTime = t], s.score)

\* The body of checkCollision's for loop from slot i on.
RECURSIVE checkPipesFrom(_, _, _)
checkPipesFrom(s, i, t) ==
  IF i >= MAX_PIPES THEN s
  ELSE IF overlapsBird(s.pipes[i]) /\ outsideGap(s.birdY, s.pipes[i])
       THEN checkPipesFrom(endRun(s, t), i + 1, t)
       ELSE checkPipesFrom(s, i + 1, t)

checkCollision(s, t) ==
  LET s1 == checkPipesFrom(s, 0, t)
  IN IF belowScreen(s1.birdY) THEN endRun(s1, t) ELSE s1

\* ------------------------------------------------------------------ physics

\* nextVelocity with the jump added to the velocity: velocity += JUMP_STRENGTH.
nextVelocity_Adds(v, pressed) ==
  constrain((IF pressed THEN v + JUMP_STRENGTH ELSE v) + GRAVITY, VELOCITY_MIN, VELOCITY_MAX)

\* The velocity statements of loop(): lines 172 to 174.
nextVelocity(v, pressed) ==
  constrain((IF pressed THEN JUMP_STRENGTH ELSE v) + GRAVITY, VELOCITY_MIN, VELOCITY_MAX)

\* nextBirdY without the clamp at the top edge.
nextBirdY_NoClamp(y, v) == y + v

\* The position statements of loop(): lines 177 to 179.
nextBirdY(y, v) == IF y + v < 0 THEN 0 ELSE y + v

\* ---------------------------------------------------------------- rendering

\* renderHighscoreScreen changes only the blink timer.
renderHighscoreScreen(s, t) ==
  IF t - s.lastBlinkTime > BLINK_TIME
  THEN [s EXCEPT !.showBlink = ~@, !.lastBlinkTime = t]
  ELSE s

\* --------------------------------------------------------------------- loop

startScreenFrame(s, pressed, h, j) ==
  IF pressed THEN [resetGame(s, h, j) EXCEPT !.gameState = "PLAYING"] ELSE s

\* gameOverFrame with >= for > in the restart condition.
gameOverFrame_AtRestartTime(s, t, pressed, h, j) ==
  LET s1 == IF t - s.gameOverTime > HIGHSCORE_AFTER
            THEN [s EXCEPT !.gameState = "HIGHSCORE", !.highscoreTime = t]
            ELSE s
  IN IF (t - s1.gameOverTime >= RESTART_AFTER) /\ pressed
     THEN [resetGame(s1, h, j) EXCEPT !.gameState = "PLAYING"]
     ELSE s1

\* gameOverFrame with the restart as the else branch of the highscore timeout.
gameOverFrame_TimeoutFirst(s, t, pressed, h, j) ==
  IF t - s.gameOverTime > HIGHSCORE_AFTER
  THEN [s EXCEPT !.gameState = "HIGHSCORE", !.highscoreTime = t]
  ELSE IF (t - s.gameOverTime > RESTART_AFTER) /\ pressed
       THEN [resetGame(s, h, j) EXCEPT !.gameState = "PLAYING"]
       ELSE s

\* gameOverFrame with the collision test still running while the run is over.
gameOverFrame_StillCollides(s, t, pressed, h, j) ==
  LET s1 == IF t - s.gameOverTime > HIGHSCORE_AFTER
            THEN [s EXCEPT !.gameState = "HIGHSCORE", !.highscoreTime = t]
            ELSE s
  IN IF (t - s1.gameOverTime > RESTART_AFTER) /\ pressed
     THEN [resetGame(s1, h, j) EXCEPT !.gameState = "PLAYING"]
     ELSE checkCollision(s1, t)

\* gameOverFrame showing the highscores as soon as a restart is allowed.
gameOverFrame_EarlyHighscore(s, t, pressed, h, j) ==
  LET s1 == IF t - s.gameOverTime > RESTART_AFTER
            THEN [s EXCEPT !.gameState = "HIGHSCORE", !.highscoreTime = t]
            ELSE s
  IN IF (t - s1.gameOverTime > RESTART_AFTER) /\ pressed
     THEN [resetGame(s1, h, j) EXCEPT !.gameState = "PLAYING"]
     ELSE s1

gameOverFrame(s, t, pressed, h, j) ==
  LET s1 == IF t - s.gameOverTime > HIGHSCORE_AFTER
            THEN [s EXCEPT !.gameState = "HIGHSCORE", !.highscoreTime = t]
            ELSE s
  IN IF (t - s1.gameOverTime > RESTART_AFTER) /\ pressed
     THEN [resetGame(s1, h, j) EXCEPT !.gameState = "PLAYING"]
     ELSE s1

playFrame(s, t, pressed, h, j) ==
  LET v == nextVelocity(s.velocity, pressed)
      s1 == [s EXCEPT !.velocity = v, !.birdY = nextBirdY(@, v)]
  IN checkCollision(movePipes(s1, h, j), t)

\* highscoreFrame without the way back to the start screen.
highscoreFrame_NoTimeout(s, t, pressed, h, j) ==
  LET s1 == renderHighscoreScreen(s, t)
  IN IF pressed THEN [resetGame(s1, h, j) EXCEPT !.gameState = "PLAYING"] ELSE s1

\* highscoreFrame going back to the start screen on a press.
highscoreFrame_PressToStart(s, t, pressed, h, j) ==
  LET s1 == renderHighscoreScreen(s, t)
  IN IF pressed \/ t - s1.gameOverTime > STARTSCREEN_AFTER
     THEN [s1 EXCEPT !.gameState = "STARTSCREEN"]
     ELSE s1

highscoreFrame(s, t, pressed, h, j) ==
  LET s1 == renderHighscoreScreen(s, t)
      s2 == IF t - s1.gameOverTime > STARTSCREEN_AFTER
            THEN [s1 EXCEPT !.gameState = "STARTSCREEN"]
            ELSE s1
  IN IF pressed THEN [resetGame(s2, h, j) EXCEPT !.gameState = "PLAYING"] ELSE s2

\* frameSkipped with half the frame time.
frameSkipped_HalfTime(s, t) == t - s.lastFrameTime < FRAME_TIME \div 2

\* Whether loop() returns at its frame-time gate.
frameSkipped(s, t) == t - s.lastFrameTime < FRAME_TIME

\* loop() called at time t with the button at level pressed.
loop_(s, t, pressed, h, j) ==
  IF frameSkipped(s, t) THEN s
  ELSE LET s0 == [s EXCEPT !.lastFrameTime = t, !.frameCounter = @ + 1]
       IN CASE s0.gameState = "STARTSCREEN" -> startScreenFrame(s0, pressed, h, j)
            [] s0.gameState = "PLAYING" ->
                 IF s0.gameOver THEN gameOverFrame(s0, t, pressed, h, j)
                 ELSE playFrame(s0, t, pressed, h, j)
            [] s0.gameState = "HIGHSCORE" -> highscoreFrame(s0, t, pressed, h, j)

\* -------------------------------------------------------------- environment

\* The values the model draws for random(): both ends of each range.
HeightDraws == {PIPE_HEIGHT_LO, PIPE_HEIGHT_HI - 1}
JitterDraws == {JITTER_LO, JITTER_HI - 1}

\* Whether this call of loop() runs resetGame.
resetsGame(s, t, pressed) ==
  /\ ~frameSkipped(s, t)
  /\ pressed
  /\ \/ s.gameState = "STARTSCREEN"
     \/ s.gameState = "HIGHSCORE"
     \/ s.gameState = "PLAYING" /\ s.gameOver /\ t - s.gameOverTime > RESTART_AFTER

\* The slots whose random() values this call of loop() consumes.
slotsDrawn(s, t, pressed) ==
  IF frameSkipped(s, t) THEN {}
  ELSE IF resetsGame(s, t, pressed) THEN PipeSlots
  ELSE IF s.gameState = "PLAYING" /\ ~s.gameOver
       THEN {i \in PipeSlots : leftScreen(s.pipes[i].x - (PIPE_SPEED + s.score))}
       ELSE {}

\* The slots random(-20, 20) is called for: resetGame draws no jitter for slot 0,
\* movePipes draws one for every slot it recycles.
jitterSlots(s, t, pressed) ==
  IF resetsGame(s, t, pressed) THEN PipeSlots \ {0} ELSE slotsDrawn(s, t, pressed)

\* One value per slot, slot i drawing from S[i]; a slot whose value is not consumed
\* gets the fixed value dflt.
Draws(S, used, dflt) ==
  {f \in [PipeSlots -> UNION {S[i] : i \in PipeSlots} \cup {dflt}] :
     \A i \in PipeSlots : IF i \in used THEN f[i] \in S[i] ELSE f[i] = dflt}

\* ------------------------------------------------------------------ actions

\* The state after setup(): the initial values of the globals.
Init ==
  /\ now = 0
  /\ lastFrameTime = 0
  /\ frameCounter = 0
  /\ gameState = "STARTSCREEN"
  /\ gameOver = FALSE
  /\ gameOverTime = 0
  /\ highscoreTime = 0
  /\ birdY = 0
  /\ velocity = 0
  /\ score = 0
  /\ pipes = [i \in PipeSlots |-> [x |-> 0, height |-> 0]]
  /\ highscores = [i \in ScoreSlots |-> 0]
  /\ newHighscoreIndex = -1
  /\ showBlink = TRUE
  /\ lastBlinkTime = 0
  /\ button = FALSE
  /\ frameRan = FALSE
  /\ saveCalls = 0
  /\ recycled = << >>

\* The variables take the values of the globals in record s.
Store(s) ==
  /\ lastFrameTime' = s.lastFrameTime
  /\ frameCounter' = s.frameCounter
  /\ gameState' = s.gameState
  /\ gameOver' = s.gameOver
  /\ gameOverTime' = s.gameOverTime
  /\ highscoreTime' = s.highscoreTime
  /\ birdY' = s.birdY
  /\ velocity' = s.velocity
  /\ score' = s.score
  /\ pipes' = s.pipes
  /\ highscores' = s.highscores
  /\ newHighscoreIndex' = s.newHighscoreIndex
  /\ showBlink' = s.showBlink
  /\ lastBlinkTime' = s.lastBlinkTime
  /\ saveCalls' = s.saveCalls
  /\ recycled' = s.recycled

\* One call of loop(), dt milliseconds after the previous one, the button at level
\* pressed, random() drawing the height of slot i from H[i] and its jitter from J[i].
LoopUntil(limit, dt, pressed, H, J) ==
  LET t == now + dt
      s == [Globals EXCEPT !.saveCalls = 0, !.recycled = << >>]
      used == slotsDrawn(s, t, pressed)
  IN /\ t <= limit
     /\ \E h \in Draws(H, used, PIPE_HEIGHT_LO) :
          \E j \in Draws(J, jitterSlots(s, t, pressed), 0) :
            Store(loop_(s, t, pressed, h, j))
     /\ now' = t
     /\ frameRan' = ~frameSkipped(s, t)
     /\ button' = IF frameSkipped(s, t) THEN button ELSE pressed

\* The calls of loop() up to the time MaxTime.
Loop(dt, pressed, H, J) == LoopUntil(MaxTime, dt, pressed, H, J)

\* ------------------------------------------------- Spec: the whole program

\* Times between two calls of loop(): half a frame time (the second call of a frame
\* period), a frame time, and a long wait.
Deltas == {FRAME_TIME \div 2, FRAME_TIME, RESTART_AFTER}

\* random() in Spec: one height and one jitter (the obstacles never reach the actor
\* within MaxFrames frames).
SpecHeights == [i \in PipeSlots |-> {PIPE_HEIGHT_HI - 1}]
SpecJitters == [i \in PipeSlots |-> {JITTER_LO}]

\* Nobody plays: the run is over or the highscores are shown.
waiting == (gameState = "PLAYING" /\ gameOver) \/ gameState = "HIGHSCORE"

\* loop() is called at half frame times; a long wait happens only while nobody plays.
callTime(dt) ==
  /\ (now + dt - lastFrameTime) % FRAME_TIME = 0 \/ now = lastFrameTime
  /\ dt = RESTART_AFTER => waiting

Next ==
  \E dt \in Deltas : \E pressed \in BOOLEAN :
    /\ frameCounter < MaxFrames
    /\ callTime(dt)
    /\ Loop(dt, pressed, SpecHeights, SpecJitters)

Spec == Init /\ [][Next]_vars

\* ------------------------------------- SpecRun: a run up to its collision

\* The run in progress.
playing == gameState = "PLAYING" /\ ~gameOver

\* The player of SpecRun starts the game at once, hovers at the start height while
\* every obstacle is far away (a press whenever the fall has become as fast as the
\* jump), and does anything once an obstacle is near.
approaching == playing /\ \A i \in PipeSlots : pipes[i].x > ApproachX

RunPresses ==
  IF gameState = "STARTSCREEN" THEN {TRUE}
  ELSE IF approaching THEN {velocity >= -(JUMP_STRENGTH + GRAVITY)}
  ELSE BOOLEAN

\* random() in SpecRun: both ends of the height range for the first obstacle.
RunHeights == [i \in PipeSlots |-> IF i = 0 THEN HeightDraws ELSE {PIPE_HEIGHT_LO}]
RunJitters == [i \in PipeSlots |-> {JITTER_HI - 1}]

NextRun ==
  \E pressed \in RunPresses :
    /\ gameState = "STARTSCREEN" \/ playing
    /\ score < MaxRunScore
    /\ Loop(FRAME_TIME, pressed, RunHeights, RunJitters)

SpecRun == Init /\ [][NextRun]_vars

\* -------------------------- SpecPilot: a long run through the obstacle field

\* The obstacle the actor meets next: the leftmost one not yet past the actor.
ahead == {i \in PipeSlots :
            pipes[i].x + PIPE_WIDTH > (BIRD_X_PX - FORGIVENESS_PX) * SCALE_FACTOR}
nextPipe == CHOOSE i \in ahead : \A k \in ahead : pipes[i].x <= pipes[k].x

\* The player of SpecPilot starts the game at once and steers for the middle of
\* the next gap: a press whenever the actor is below it.
PilotPress ==
  IF gameState = "STARTSCREEN" \/ ahead = {} THEN TRUE
  ELSE birdY > pipes[nextPipe].height + PIPE_GAP \div 2

PilotHeights == [i \in PipeSlots |-> HeightDraws]
\* A jitter from inside the range with which the obstacle of slot 1, moved by
\* PIPE_SPEED first and by PIPE_SPEED + 1 after the first recycle, comes to x =
\* -(PIPE_WIDTH + 1) (the ends of the range take it past that position).
EdgeJitter == 3

PilotJitters == [i \in PipeSlots |-> IF i = 1 THEN JitterDraws \cup {EdgeJitter}
                                     ELSE JitterDraws]

NextPilot ==
  /\ gameState = "STARTSCREEN" \/ playing
  /\ score < MaxScore
  /\ Loop(FRAME_TIME, PilotPress, PilotHeights, PilotJitters)

SpecPilot == Init /\ [][NextPilot]_vars

\* --------------------------------- SpecSession: one run after the other

\* The player of SpecSession starts the game at once, steers like the player of
\* SpecPilot until the score is MaxRunScore and holds the button from then on, which
\* takes the actor to the top edge and into the next obstacle; once the run is over
\* the player presses or not, as they like.
SessionPresses ==
  IF gameState = "STARTSCREEN" THEN {TRUE}
  ELSE IF playing THEN {score < MaxRunScore => PilotPress}
  ELSE BOOLEAN

\* loop() is called every frame time during a run; the first call after the
\* collision comes a frame time or a long wait later, every further one while
\* nobody plays after a long wait.
SessionDeltas ==
  IF ~waiting THEN {FRAME_TIME}
  ELSE IF now = gameOverTime THEN {FRAME_TIME, RESTART_AFTER}
  ELSE {RESTART_AFTER}

\* random() in SpecSession: both ends of the jitter range for the slots resetGame
\* draws a jitter for.
SessionJitters == [i \in PipeSlots |-> IF i = 0 THEN {JITTER_HI - 1} ELSE JitterDraws]

NextSession ==
  \E dt \in SessionDeltas : \E pressed \in SessionPresses :
    Loop(dt, pressed, RunHeights, SessionJitters)

SpecSession == Init /\ [][NextSession]_vars

\* ------------------- SpecIdle: the player walks away when the run is over

\* The player of SpecIdle starts the game at once, plays as they like for the first
\* MaxFrames frames, lets the actor fall after that, and does not touch the button
\* again once the run is over.
IdlePresses ==
  IF gameState = "STARTSCREEN" THEN {gameOverTime = 0}
  ELSE IF playing /\ frameCounter < MaxFrames THEN BOOLEAN
  ELSE {FALSE}

\* loop() is called every frame time during the run and after a long wait from
\* the collision on.
IdleDelta == IF playing \/ gameOverTime = 0 THEN FRAME_TIME ELSE RESTART_AFTER

NextIdle ==
  \E pressed \in IdlePresses : Loop(IdleDelta, pressed, SpecHeights, SpecJitters)

\* The clock reaches the next call of loop(): what every step of NextIdle does to
\* now, and possible whenever NextIdle is.
NextCall == now' = now + IdleDelta /\ now' <= MaxTime

\* loop() is called again and again for as long as the board has power.
SpecIdle == Init /\ [][NextIdle]_vars /\ WF_now(NextCall)

\* ------------------------------ SpecMarathon: one run to a high score

\* The height every gap leaves free: between the lowest upper section plus the
\* margin and the highest lower section minus the margin; HoverY is its middle.
HoverY == (PIPE_HEIGHT_HI + PIPE_HEIGHT_LO + PIPE_GAP) \div 2

\* The player of SpecMarathon starts the game at once and keeps the actor around
\* HoverY, where it passes every gap: a press whenever the actor is below it.
MarathonPress == gameState = "STARTSCREEN" \/ birdY > HoverY

NextMarathon ==
  /\ gameState = "STARTSCREEN" \/ playing
  /\ score < MaxLongScore
  /\ LoopUntil(MaxLongTime, FRAME_TIME, MarathonPress, SpecHeights, SpecJitters)

SpecMarathon == Init /\ [][NextMarathon]_vars

\* --------------------------------- SpecHighscore: the highscore list alone

\* The final scores submitted: 0, 1 and the multiples of 5 up to 5 * MaxScoreStep.
FinalScores == {0, 1} \cup {5 * k : k \in 1 .. MaxScoreStep}

\* A run is cut down to its end: the statements checkCollision runs on a hit, with
\* final score sc.  The clock is left alone: the list does not depend on it.
RunEnds(sc) ==
  /\ playing
  /\ Store(endRun([Globals EXCEPT !.gameState = "PLAYING", !.score = sc,
                                  !.saveCalls = 0, !.recycled = << >>], now))
  /\ frameRan' = TRUE
  /\ UNCHANGED << now, button >>

\* The next run is started by a press, on the start screen or after a run: the
\* statements resetGame(); gameState = PLAYING of loop(), with one draw of random().
NewRun ==
  /\ ~playing
  /\ Store([resetGame([Globals EXCEPT !.saveCalls = 0, !.recycled = << >>],
                      [i \in PipeSlots |-> PIPE_HEIGHT_LO],
                      [i \in PipeSlots |-> 0])
             EXCEPT !.gameState = "PLAYING"])
  /\ frameRan' = TRUE
  /\ button' = TRUE
  /\ UNCHANGED now

NextHighscore == NewRun \/ \E sc \in FinalScores : RunEnds(sc)

SpecHighscore == Init /\ [][NextHighscore]_vars

\* ------------------------------------------------ claims on the highscores

\* The slots of list hs whose value is smaller than sc.
SmallerSlots(hs, sc) == {i \in ScoreSlots : hs[i] < sc}

LowestSlot(S) == CHOOSE i \in S : \A k \in S : i <= k

\* C2, as claimed: after every saveHighscores call the list has exactly 5 entries
\* and is sorted strictly descending, highscores[i] > highscores[i+1].
C2_StrictlyDescending ==
  saveCalls > 0 =>
    /\ DOMAIN highscores = ScoreSlots
    /\ \A i \in 0 .. (HIGHSCORE_SLOTS - 2) : highscores[i] > highscores[i + 1]

\* C2, amended: the list always has exactly 5 entries and is sorted descending
\* with ties allowed, highscores[i] >= highscores[i+1].
C2_Descending ==
  /\ DOMAIN highscores = ScoreSlots
  /\ \A i \in 0 .. (HIGHSCORE_SLOTS - 2) : highscores[i] >= highscores[i + 1]

\* A list of five different positive scores has been built by saveHighscores.
C2_Witness ==
  /\ saveCalls = 1
  /\ highscores[HIGHSCORE_SLOTS - 1] > 0
  /\ \A i \in 0 .. (HIGHSCORE_SLOTS - 2) : highscores[i] > highscores[i + 1]

\* C3: saveHighscores(s) inserts s iff s is greater than some entry; s goes to the
\* lowest slot whose value is < s, the entries from there on move down by one, the
\* last one is dropped, the entries above stay, and newHighscoreIndex is that slot;
\* [50,40,30,20,10] with s = 35 gives [50,40,35,30,20] and index 2.
C3_Insert ==
  [][saveCalls' = 1 =>
       LET S == SmallerSlots(highscores, score')
       IN /\ (highscores' # highscores) => S # {}
          /\ S # {} =>
               LET k == LowestSlot(S)
               IN /\ highscores'[k] = score'
                  /\ \A i \in ScoreSlots : i < k => highscores'[i] = highscores[i]
                  /\ \A i \in ScoreSlots : i > k => highscores'[i] = highscores[i - 1]
                  /\ newHighscoreIndex' = k
          /\ (highscores = [i \in ScoreSlots |-> 50 - 10 * i] /\ score' = 35) =>
               /\ highscores' = [i \in ScoreSlots |->
                                   IF i < 2 THEN 50 - 10 * i
                                   ELSE IF i = 2 THEN 35 ELSE 60 - 10 * i]
               /\ newHighscoreIndex' = 2
    ]_vars

\* 35 has just been inserted at slot 2, between 40 and 30.
C3_Witness ==
  /\ saveCalls = 1
  /\ score = 35
  /\ newHighscoreIndex = 2
  /\ highscores = [i \in ScoreSlots |->
                     IF i < 2 THEN 50 - 10 * i ELSE IF i = 2 THEN 35 ELSE 60 - 10 * i]

\* C4: saveHighscores(s) with s <= the smallest entry changes no entry and leaves
\* newHighscoreIndex = -1.
C4_NoOp ==
  [][(saveCalls' = 1 /\ \A i \in ScoreSlots : score' <= highscores[i]) =>
       (highscores' = highscores /\ newHighscoreIndex' = -1)]_vars

\* A positive score that does not beat the smallest entry of a full list was
\* submitted right after a score that was inserted.
C4_Witness ==
  /\ saveCalls = 1
  /\ score > 0
  /\ score <= highscores[HIGHSCORE_SLOTS - 1]
  /\ newHighscoreIndex = -1

\* C5, as claimed: saveHighscores(s) with s equal to an entry of the list leaves
\* the list unchanged and marks no insertion.
C5_EqualNeverInserted ==
  [][(saveCalls' = 1 /\ \E i \in ScoreSlots : highscores[i] = score') =>
       (highscores' = highscores /\ newHighscoreIndex' = -1)]_vars

\* C5, amended: s never takes the slot of an entry >= s (each such entry keeps its
\* slot and newHighscoreIndex is never the slot of one); with s equal to an entry,
\* the list is unchanged and no insertion is marked exactly when no entry is
\* smaller than s, otherwise s is inserted again below its equals.
C5_EqualKeepsSlot ==
  [][saveCalls' = 1 =>
       /\ \A i \in ScoreSlots : highscores[i] >= score' =>
            (highscores'[i] = highscores[i] /\ newHighscoreIndex' # i)
       /\ (\E i \in ScoreSlots : highscores[i] = score') =>
            IF SmallerSlots(highscores, score') = {}
            THEN highscores' = highscores /\ newHighscoreIndex' = -1
            ELSE /\ newHighscoreIndex' = LowestSlot(SmallerSlots(highscores, score'))
                 /\ highscores'[newHighscoreIndex'] = score'
                 /\ highscores'[newHighscoreIndex' - 1] = score'
    ]_vars

\* A positive score was inserted right below an equal entry.
C5_Witness ==
  /\ saveCalls = 1
  /\ score > 0
  /\ newHighscoreIndex > 0
  /\ highscores[newHighscoreIndex] = score
  /\ highscores[newHighscoreIndex - 1] = score

\* ------------------------------------------------- claims on the collision

\* How often value v occurs in list hs.
Occurrences(hs, v) == Cardinality({i \in ScoreSlots : hs[i] = v})

\* C1, as claimed: in the tick in which checkCollision ends the run, the score is
\* submitted to saveHighscores exactly once, so that the run adds at most one
\* entry to the highscore list.
C1_SubmittedOnce ==
  [][(playing /\ gameOver') =>
       /\ saveCalls' = 1
       /\ Occurrences(highscores', score') <= Occurrences(highscores, score') + 1
    ]_vars

\* The first run since power-on has ended with score 1 and has put two entries
\* into the list.
C1_DoubleEntry ==
  /\ gameOver
  /\ score = 1
  /\ saveCalls = 2
  /\ highscores = [i \in ScoreSlots |-> IF i < 2 THEN 1 ELSE 0]

\* The horizontal test of the claims: (15-2)*10 - PIPE_WIDTH < x < (15+2)*10.
InBirdColumn(p) ==
  /\ (15 - 2) * SCALE_FACTOR - PIPE_WIDTH < p.x
  /\ p.x < (15 + 2) * SCALE_FACTOR

\* The collision condition of C8 on obstacles ps and actor position y.
Hit(ps, y) ==
  \/ \E i \in PipeSlots :
       /\ InBirdColumn(ps[i])
       /\ y - 20 < ps[i].height \/ y + 20 > ps[i].height + PIPE_GAP
  \/ y >= SCREEN_HEIGHT * 10

\* C8: after a PLAYING tick that began with the run not over, gameOver is true iff
\* the collision condition holds on the positions after the tick's movement; so
\* while the run is not over the actor is above the bottom edge and its hitbox is
\* inside the gap of every obstacle in its column.
C8_GameOverIffHit ==
  /\ [][(playing /\ frameRan') => (gameOver' <=> Hit(pipes', birdY'))]_vars
  /\ [](playing =>
          /\ birdY < SCREEN_HEIGHT * 10
          /\ \A i \in PipeSlots : InBirdColumn(pipes[i]) =>
               /\ pipes[i].height <= birdY - 20
               /\ birdY + 20 <= pipes[i].height + PIPE_GAP)

\* A run has just ended on an obstacle alone: the actor is above the bottom edge
\* and below the gap of the obstacle in its column.
C8_Witness ==
  /\ gameState = "PLAYING"
  /\ gameOver
  /\ saveCalls = 1
  /\ birdY < SCREEN_HEIGHT * 10
  /\ \E i \in PipeSlots : InBirdColumn(pipes[i]) /\ birdY + 20 > pipes[i].height + PIPE_GAP

C7_BirdYNotNegative == birdY >= 0

\* The actor has been stopped at the top edge while rising.
C7_Witness == playing /\ frameRan /\ birdY = 0 /\ velocity < 0

\* ------------------------------------------------- claims on the recycling

\* C10: at every recycle event the recycled obstacle's new x is greater than the x
\* of every other obstacle at that moment.
C10_RecycledFurthest ==
  \A n \in 1 .. Len(recycled) :
    \A k \in PipeSlots \ {recycled[n].slot} :
      recycled[n].after[recycled[n].slot].x > recycled[n].after[k].x

\* Slot 1 has just been recycled: slot 0 had already moved in this tick, slot 2 had not.
C10_Witness == \E n \in 1 .. Len(recycled) : recycled[n].slot = 1

\* ------------------------------------------- claims on the obstacle field

\* The distance between the x positions of two obstacles.
Distance(p, q) == IF p.x >= q.x THEN p.x - q.x ELSE q.x - p.x

\* C11: at the end of every tick of a run (the first one, which places the
\* obstacles, and every later one, whatever was recycled at whatever speed) the x
\* positions of two different slots are at least PIPE_WIDTH apart: no two
\* obstacles overlap horizontally.
C11_NoOverlap ==
  gameState = "PLAYING" =>
    \A i, k \in PipeSlots : i # k => Distance(pipes[i], pipes[k]) >= PIPE_WIDTH

\* Every slot has been recycled once (the third recycle of the run happens in this
\* tick, at speed PIPE_SPEED + 2), and the obstacles are still apart.
C11_Witness ==
  /\ gameState = "PLAYING"
  /\ score = MAX_PIPES
  /\ Len(recycled) = 1
  /\ recycled[1].slot = MAX_PIPES - 1
  /\ \A i, k \in PipeSlots : i # k => Distance(pipes[i], pipes[k]) >= PIPE_WIDTH

\* ------------------------------------------------------ claims on the score

\* resetGame has run in this step: a run is in progress that was not before.
RunStarts == ~playing /\ playing'

\* C12: the score grows by exactly 1 with every recycled obstacle and at no other
\* point (a step adds the number of obstacles movePipes recycled in it, and only a
\* tick of the run recycles), it never goes down within a run, and it returns to 0
\* only where resetGame starts the next run.
C12_Score ==
  [][/\ RunStarts => score' = 0
     /\ ~RunStarts => score' = score + Len(recycled')
     /\ Len(recycled') > 0 => playing
     /\ score' < score => RunStarts]_vars

\* A run has just started after a run that scored: the score is back to 0.
C12_Witness ==
  /\ playing
  /\ score = 0
  /\ highscores[0] > 0
  /\ lastFrameTime = now
  /\ pipes[0].x = SCREEN_WIDTH * SCALE_FACTOR

\* Slot i is among the obstacles recycled in the tick that led to this state.
WasRecycled(i) == \E k \in 1 .. Len(recycled) : recycled[k].slot = i

C14_GapOnScreen ==
  gameState = "PLAYING" =>
    \A i \in PipeSlots :
      /\ 10 * SCALE_FACTOR <= pipes[i].height
      /\ pipes[i].height + PIPE_GAP <= SCREEN_HEIGHT * SCALE_FACTOR - 10 * SCALE_FACTOR

\* An obstacle has just been recycled with the greatest height random() can return,
\* one less than the bound the claim allows, while another obstacle has the least.
C14_Witness ==
  /\ playing
  /\ Len(recycled) = 1
  /\ pipes[recycled[1].slot].height + PIPE_GAP
       = SCREEN_HEIGHT * SCALE_FACTOR - 10 * SCALE_FACTOR - 1
  /\ \E i \in PipeSlots : pipes[i].height = 10 * SCALE_FACTOR

\* --------------------------------------------- claims on the state machine

\* The run has ended and its last frame is still shown.
RunOver == gameState = "PLAYING" /\ gameOver

\* C15: while no more than RESTART_AFTER ms have passed since the collision, a call
\* of loop() leaves the run as it ended, whatever the button: the state stays
\* PLAYING with gameOver set, and actor, obstacles, score and highscores are not
\* touched.  This holds for a button held down since before the collision too.
C15_Cooldown ==
  [][RunOver /\ now' - gameOverTime <= RESTART_AFTER =>
       /\ RunOver'
       /\ UNCHANGED << birdY, velocity, pipes, score, gameOverTime, highscores >>]_vars

\* The run ended in a tick with the button pressed (the velocity is that of a
\* jump), and the button is sampled pressed again exactly RESTART_AFTER ms later:
\* the run is not restarted.
C15_Witness ==
  /\ RunOver
  /\ velocity = JUMP_STRENGTH + GRAVITY
  /\ frameRan
  /\ button
  /\ now - gameOverTime = RESTART_AFTER

FreshRun ==
  /\ gameState = "PLAYING"
  /\ ~gameOver
  /\ score = 0
  /\ velocity = 0
  /\ birdY = (SCREEN_HEIGHT * SCALE_FACTOR) \div 5
  /\ pipes[0].x = SCREEN_WIDTH * SCALE_FACTOR

\* C17 as stated: in HIGHSCORE a tick in which the button is sampled pressed ends
\* in STARTSCREEN.
C17_PressToStartScreen ==
  [][gameState = "HIGHSCORE" /\ frameRan' /\ button' => gameState' = "STARTSCREEN"]_vars

\* C17 as the code has it: in HIGHSCORE a tick in which the button is sampled
\* pressed starts a new run at once: it ends in PLAYING with the run freshly reset
\* and never in STARTSCREEN, not even if the highscore timeout has passed as well.
C17_PressStartsRun ==
  [][gameState = "HIGHSCORE" /\ frameRan' /\ button' => FreshRun']_vars

\* A run has been started by a press in HIGHSCORE: the highscore screen came up in
\* an earlier tick, and the timeout that leads back to the start screen has not
\* passed, so that the press was not sampled by the start screen.
C17_Witness ==
  /\ FreshRun
  /\ frameRan
  /\ button
  /\ lastFrameTime = now
  /\ highscoreTime > gameOverTime
  /\ highscoreTime < now
  /\ now - gameOverTime <= STARTSCREEN_AFTER

\* ------------------------------------------------- claims on the frame gate

\* C18: a call of loop() less than FRAME_TIME ms after the last tick does no work:
\* state, actor, obstacles, score, highscores, frame counter and lastFrameTime (and
\* every other variable of the sketch) are what they were.  A call FRAME_TIME ms or
\* more after the last tick is a tick: it stamps lastFrameTime with the time of the
\* call and counts exactly one frame.  So two ticks are at least FRAME_TIME apart.
C18_FrameGate ==
  [][IF now' - lastFrameTime < FRAME_TIME
     THEN UNCHANGED << lastFrameTime, frameCounter, gameState, gameOver, gameOverTime,
                       highscoreTime, birdY, velocity, score, pipes, highscores,
                       newHighscoreIndex, showBlink, lastBlinkTime >>
     ELSE /\ frameCounter' = frameCounter + 1
          /\ lastFrameTime' = now'
          /\ lastFrameTime' - lastFrameTime >= FRAME_TIME]_vars

\* loop() has been called in the middle of a run, half a frame time after a tick
\* in which the button was not pressed, and has returned at once.
C18_Witness ==
  /\ playing
  /\ ~frameRan
  /\ ~button
  /\ now - lastFrameTime = FRAME_TIME \div 2
  /\ frameCounter > 1

\* The greatest x among the obstacles ps.
TrueMaximum(ps) ==
  CHOOSE m \in {ps[i].x : i \in PipeSlots} : \A i \in PipeSlots : ps[i].x <= m

\* The jitters random(-20, 20) * SCALE_FACTOR can be.
Jitters == {n * SCALE_FACTOR : n \in JITTER_LO .. JITTER_HI - 1}

\* C19: at every recycle the recycled obstacle's new x is the greatest x among all
\* obstacles at that moment, plus PIPE_SPACING, plus a jitter.  The maximum
\* findFurthestPipe takes starts at 0, and that makes no difference: at every
\* recycle some obstacle is right of 0.
C19_PlacedBehindMaximum ==
  \A n \in 1 .. Len(recycled) :
    LET event == recycled[n]
    IN /\ TrueMaximum(event.before) > 0
       /\ event.after[event.slot].x - TrueMaximum(event.before) - PIPE_SPACING
            \in Jitters

\* Slot 2 has just been recycled with the least jitter; the furthest obstacle at
\* that moment was slot 1, recycled before it and already moved in this tick.
C19_Witness ==
  /\ Len(recycled) = 1
  /\ recycled[1].slot = 2
  /\ TrueMaximum(recycled[1].before) = recycled[1].before[1].x
  /\ pipes[2].x = recycled[1].before[1].x + PIPE_SPACING + JITTER_LO * SCALE_FACTOR

\* C20: a tick of a run that is over, more than RESTART_AFTER ms after the
\* collision and with the button sampled pressed, ends in PLAYING with the run
\* freshly reset (gameOver false, score 0): HIGHSCORE is not shown.  More than
\* HIGHSCORE_AFTER ms after the collision the same holds: the press wins over the
\* timeout.
C20_PressRestarts ==
  [][RunOver /\ frameRan' /\ button' /\ now' - gameOverTime > RESTART_AFTER =>
       FreshRun']_vars

\* A run has been restarted by the press in the tick in which the highscore
\* timeout had passed as well: the tick stamped highscoreTime and went on to
\* reset the run that had scored before.
C20_Witness ==
  /\ FreshRun
  /\ frameRan
  /\ button
  /\ highscoreTime = now
  /\ now - gameOverTime > HIGHSCORE_AFTER
  /\ highscores[0] > 0

\* ---------------------------------------------------- claims on resetGame

\* C21: whatever the state resetGame is called in (start screen, a run that is
\* over, highscore screen), the run it starts has birdY = SCREEN_HEIGHT *
\* SCALE_FACTOR / 5, velocity 0, score 0 and gameOver false; obstacle 0 is at the
\* right screen edge and obstacle i >= 1 at SCREEN_WIDTH * SCALE_FACTOR + i *
\* PIPE_SPACING plus a jitter of its own, so that x grows strictly with the slot.
C21_ResetGame ==
  [][RunStarts =>
       /\ birdY' = (SCREEN_HEIGHT * SCALE_FACTOR) \div 5
       /\ velocity' = 0
       /\ score' = 0
       /\ ~gameOver'
       /\ pipes'[0].x = SCREEN_WIDTH * SCALE_FACTOR
       /\ \A i \in PipeSlots \ {0} :
            /\ pipes'[i].x - SCREEN_WIDTH * SCALE_FACTOR - i * PIPE_SPACING \in Jitters
            /\ pipes'[i].x > pipes'[i - 1].x]_vars

\* A run has just been started from the highscore screen, after a run that scored
\* and ended with the actor rising; slot 1 has drawn the greatest jitter and slot
\* 2 the least, which brings the two as close as resetGame can.
C21_Witness ==
  /\ FreshRun
  /\ lastFrameTime = now
  /\ highscores[0] > 0
  /\ highscoreTime > gameOverTime
  /\ highscoreTime < now
  /\ pipes[1].x = SCREEN_WIDTH * SCALE_FACTOR + PIPE_SPACING + (JITTER_HI - 1) * SCALE_FACTOR
  /\ pipes[2].x = SCREEN_WIDTH * SCALE_FACTOR + 2 * PIPE_SPACING + JITTER_LO * SCALE_FACTOR

\* ------------------------------------------------ claims on the run's end

\* C22: while gameOver is true no tick runs physics, obstacle movement or collision
\* detection.  As long as no new run starts, actor, obstacles and score are what
\* the collision tick left; the highscore list, newHighscoreIndex and gameOverTime
\* stay so even in the tick that starts the new run, and saveHighscores is not
\* called again.
C22_FrozenWhenOver ==
  [][gameOver =>
       /\ UNCHANGED << highscores, newHighscoreIndex, gameOverTime >>
       /\ saveCalls' = 0
       /\ Len(recycled') = 0
       /\ ~RunStarts => UNCHANGED << birdY, velocity, pipes, score, gameOver >>]_vars

\* The start screen is shown again after a run that scored: the run is still as
\* its collision tick left it, score and all, and its score heads the list.
C22_Witness ==
  /\ gameState = "STARTSCREEN"
  /\ gameOver
  /\ frameRan
  /\ score > 0
  /\ highscores[0] = score
  /\ now - gameOverTime > STARTSCREEN_AFTER

\* ------------------------------------------------- claims on the passing

\* C23: no obstacle skips over the actor.  Between its placement, right of the
\* actor's column, and its recycling, left of it, the x of an obstacle only goes
\* down, by the speed PIPE_SPEED + score of each tick; so the obstacle overlaps the
\* column at the end of some tick, and is put to the gap test there, exactly if no
\* single tick takes it from the right of the column (x >= 170) to the left of it
\* (x + PIPE_WIDTH <= 130), whatever the score.
C23_NoSkip ==
  [][playing =>
       \A i \in PipeSlots :
         pipes[i].x >= (BIRD_X_PX + FORGIVENESS_PX) * SCALE_FACTOR =>
           pipes[i].x - (PIPE_SPEED + score) + PIPE_WIDTH
             > (BIRD_X_PX - FORGIVENESS_PX) * SCALE_FACTOR]_vars

\* The greater of two scores.
Greater(a, b) == IF a >= b THEN a ELSE b

\* C24: highscores[0] is the greatest final score of the runs that have ended
\* since power-on.  It is 0 at power-on; a step in which a run ends (the final
\* score is submitted) leaves there the greater of what was there and the final
\* score; and no other step, the start of a new run by resetGame among them,
\* changes the list at all.
C24_TopIsGreatest ==
  /\ highscores[0] = 0
  /\ [][IF saveCalls' > 0
        THEN highscores'[0] = Greater(highscores[0], score')
        ELSE highscores' = highscores]_vars

\* A new run has been started after a run whose final score came second on the
\* list: the greatest score is still on top and the list is as that run left it.
C24_Witness ==
  /\ playing
  /\ score = 0
  /\ saveCalls = 0
  /\ newHighscoreIndex = 1
  /\ highscores[1] > 0
  /\ highscores[0] > highscores[1]

\* C25: HIGHSCORE is entered only from a run that is over, in a tick more than
\* HIGHSCORE_AFTER ms after the collision in which the button is not sampled
\* pressed.  Hence gameOver is true whenever the highscores are shown, and no tick
\* that samples the button pressed ends in HIGHSCORE: a player who holds the
\* button from the collision on never sees the highscores.
C25_HighscoreEntry ==
  /\ [](gameState = "HIGHSCORE" => gameOver)
  /\ [][gameState # "HIGHSCORE" /\ gameState' = "HIGHSCORE" =>
          /\ RunOver
          /\ frameRan'
          /\ ~button'
          /\ now' - gameOverTime > HIGHSCORE_AFTER]_vars
  /\ [][frameRan' /\ button' => gameState' # "HIGHSCORE"]_vars

\* The highscores have come up in this tick, in which the button was not pressed.
C25_Witness ==
  /\ gameState = "HIGHSCORE"
  /\ gameOver
  /\ frameRan
  /\ ~button
  /\ highscoreTime = now
  /\ now - gameOverTime > HIGHSCORE_AFTER

====
